---------------------------- MODULE Spec2Model ----------------------------
(***************************************************************************)
(* Mirrorlist (enindu/mirrorlist): the concurrent generator of             *)
(* src/unnamed/part_000.  main parses the flags, fetches the mirror list,  *)
(* starts one ping goroutine per link, waits for all of them on the        *)
(* package-level WaitGroup, closes the channel, checks that it holds at    *)
(* least count mirrors, sorts them by time and prints the first count.     *)
(*                                                                         *)
(* Time is counted in ticks.  A mirror's time, end.Seconds() divided by    *)
(* float64(pings), is kept as the exact fraction num/den; the rounding of  *)
(* the floating-point division is not modelled.                            *)
(***************************************************************************)
EXTENDS Integers, Sequences, FiniteSets

\* Largest number of "#Server = ..." lines in the fetched mirror list.
MaxLinks == 2
\* Largest value of the -pings flag.
MaxPings == 2
\* Largest duration, in ticks, that time.Since measures for one request.
MaxDur == 1
\* Largest value of the -count flag.
MaxCount == 2

VARIABLES
    httpOnly,   \* *httpOnly
    httpsOnly,  \* *httpsOnly
    count,      \* *count
    pings,      \* *pings
    output,     \* *output
    verbose,    \* *verbose
    wait,       \* the counter of the package-level WaitGroup
    pcMain,     \* where main is
    exit,       \* how main ended: "none" while it runs
    link,       \* main's link: the mirror list URL
    links,      \* main's links
    channel,    \* the mirrors buffered in main's channel, oldest first
    capacity,   \* the capacity the channel was made with
    closed,     \* whether close(channel) was executed
    next,       \* the index of the next link the launch loop starts
    mirrors,    \* main's mirrors slice
    written,    \* the lines main wrote to its writer, whichever it is
    stdout,     \* the lines written to os.Stdout
    file,       \* the file -output names: whether it exists, and its lines
    file0,      \* that file as os.OpenFile found it
    erro,       \* the messages printed with erro.Print
    info,       \* the messages printed with info.Print
    pc,         \* pc[p]: where the ping goroutine of links[p] is
    i,          \* i[p]: ping's loop counter
    end,        \* end[p]: ping's accumulated duration
    requests,   \* requests[p]: the requests c.Get sent to links[p] so far
    measured,   \* measured[p]: the sum of the durations time.Since measured
    result,     \* result[p]: how ping returned: "none" while it has not
    failedAt,   \* failedAt[p]: the round of the loop that failed, 0 if none
    warn,       \* warn[p]: the messages ping printed with warn.Print
    maxTime,        \* *maxTime of the sequential variant of main (src/main.go)
    sortedMirrors,  \* its map sortedMirrors: a set of pairs of a key and a value
    accepted        \* the mirrors it stored in the map, with their keys, in order

flags == <<httpOnly, httpsOnly, count, pings, output, verbose>>
mainVars == <<pcMain, exit, link, links, capacity, closed, next, mirrors>>
outVars == <<written, stdout, file, file0, erro, info>>
pingVars == <<pc, i, end, requests, measured, result, failedAt, warn>>
seqVars == <<maxTime, sortedMirrors, accepted>>
vars == <<flags, wait, mainVars, channel, outVars, pingVars, seqVars>>

\* The goroutines a run can start: one per link of the longest mirror list.
Probers == 1 .. (IF MaxLinks < 3 THEN 3 ELSE MaxLinks)

----------------------------------------------------------------------------
\* The constants of the program.

allLink == "https://archlinux.org/mirrorlist/all"
httpLink == "https://archlinux.org/mirrorlist/all/http"
httpsLink == "https://archlinux.org/mirrorlist/all/https"

\* The values the flags can take on the command line.
CountValues == (-1) .. MaxCount
PingsValues == (-1) .. MaxPings
OutputValues == {"", "mirrorlist.txt"}

\* The file -output names does not exist.
NoFile == [exists |-> FALSE, content |-> <<>>]
\* The file -output names holds lines of an earlier run.
OldFile == [exists |-> TRUE, content |-> [k \in 1 .. 2 * MaxCount + 3 |-> [line |-> "old"]]]
\* What the file -output names may be before the run.
OldFiles == {NoFile, OldFile}

\* The mirror list the source answers with: a comment, a blank line and n
\* server lines.
UrlNames == <<"A", "B", "C", "D", "E", "F">>
ServerLine(k) == [kind |-> "server", url |-> UrlNames[k]]
Body(n) ==
    <<[kind |-> "comment", url |-> ""], [kind |-> "blank", url |-> ""]>>
        \o [k \in 1 .. n |-> ServerLine(k)]
\* A mirror list that names one mirror in two server lines.
DupBody == <<ServerLine(1), ServerLine(1)>>
Bodies == {Body(n) : n \in 0 .. MaxLinks} \cup {DupBody}

----------------------------------------------------------------------------
\* Pure functions of main and ping.

\* regex.FindStringSubmatch: the whole match and the submatch (.+?), or
\* nothing when the line is not a "#Server = <url>/$repo/os/$arch" line.
FindStringSubmatch(line) ==
    IF line.kind = "server" THEN <<"#Server = " \o line.url, line.url>> ELSE <<>>

\* The scanner loop: one link per matching line, in the order of the lines.
RECURSIVE ParseLinks(_)
ParseLinks(body) ==
    IF body = <<>> THEN <<>>
    ELSE LET matches == FindStringSubmatch(Head(body))
         IN  IF Len(matches) < 1 THEN ParseLinks(Tail(body))
             ELSE <<matches[2]>> \o ParseLinks(Tail(body))

\* The switch that picks the mirror list link.
ChooseLink(h, hs) == IF h THEN httpLink ELSE IF hs THEN httpsLink ELSE allLink

\* make(chan *mirror): a channel without buffer.
MakeUnbuffered(length) == 0

\* make(chan *mirror, length)
MakeCapacity(length) == length

\* A main that adds nothing to the WaitGroup before it launches.
AddNothing(length) == 0

\* The delta of wait.Add(length)
AddDelta(length) == length

\* A Wait that returns while one prober is still counted.
WaitReturnsEarly(counter) == counter <= 1

\* wait.Wait() returns when the counter is zero.
WaitReturns(counter) == counter = 0

\* An assignment that keeps the last duration only.
AccumulateLast(e, d) == d

\* end = end + time.Since(begin)
Accumulate(e, d) == e + d

\* A ping without the check of the total.
NotRespondingNever(e) == FALSE

\* A check that lets a zero total pass.
NotRespondingNegative(e) == e < 0

\* if end <= 0 { return }
NotResponding(e) == e <= 0

\* time: end.Seconds() / float64(*pings), as a fraction
Average(e, p) == [num |-> e, den |-> p]

\* cmp.Compare(x.time, y.time) for fractions with positive denominators
Compare(x, y) ==
    LET l == x.num * y.den
        r == y.num * x.den
    IN  IF l < r THEN -1 ELSE IF l > r THEN 1 ELSE 0

\* if len(channel) < *count
Insufficient(length, c) == length < c

IsSorted(s) == \A a, b \in 1 .. Len(s) : a < b => Compare(s[a].time, s[b].time) <= 0

Permutations(s) ==
    LET n == Len(s)
    IN  {[k \in 1 .. n |-> s[f[k]]] :
            f \in {g \in [1 .. n -> 1 .. n] : \A a, b \in 1 .. n : a # b => g[a] # g[b]}}

\* No sort at all: the mirrors stay in the order they were received.
Unsorted(s) == {s}

\* slices.SortFunc: the order of equal elements is not specified.
SortFunc(s) == {t \in Permutations(s) : IsSorted(t)}

\* The lines the print loop writes for the mirrors it is given.
RECURSIVE Lines(_)
Lines(ms) ==
    IF ms = <<>> THEN <<>>
    ELSE <<[line |-> "time", time |-> Head(ms).time],
           [line |-> "Server", link |-> Head(ms).link]>> \o Lines(Tail(ms))

Footer == <<[line |-> "Generated"]>>

\* Writing lines at the start of a file opened with O_CREATE|O_WRONLY: what
\* the file held beyond the written lines stays.
WriteAtStart(f, new) ==
    [exists |-> TRUE,
     content |-> IF Len(f.content) > Len(new)
                 THEN new \o SubSeq(f.content, Len(new) + 1, Len(f.content))
                 ELSE new]

\* os.OpenFile(*output, os.O_CREATE|os.O_WRONLY, 0644) on success
OpenFile(f) == [exists |-> TRUE, content |-> f.content]

----------------------------------------------------------------------------
Init ==
    /\ httpOnly = FALSE /\ httpsOnly = FALSE
    /\ count = 5 /\ pings = 5 /\ output = "" /\ verbose = FALSE
    /\ wait = 0
    /\ pcMain = "parse" /\ exit = "none"
    /\ link = "" /\ links = <<>>
    /\ channel = <<>> /\ capacity = 0 /\ closed = FALSE
    /\ next = 1 /\ mirrors = <<>>
    /\ written = <<>> /\ stdout = <<>> /\ erro = <<>> /\ info = <<>>
    /\ file0 = NoFile /\ file = file0
    /\ pc = [p \in Probers |-> "idle"]
    /\ i = [p \in Probers |-> 0]
    /\ end = [p \in Probers |-> 0]
    /\ requests = [p \in Probers |-> 0]
    /\ measured = [p \in Probers |-> 0]
    /\ result = [p \in Probers |-> "none"]
    /\ failedAt = [p \in Probers |-> 0]
    /\ warn = [p \in Probers |-> <<>>]
    /\ maxTime = 1 /\ sortedMirrors = {} /\ accepted = <<>>

\* main returns.
Return(how) == pcMain' = "returned" /\ exit' = how

\* flag.Parse().  The flags are set once, here.  -count and -output are read
\* by main alone, after the probers have returned, so the model draws the
\* values flag.Parse gave them where main first reads them (CheckCount,
\* GetOutput and OpenFails): the behaviours are the same and the probers'
\* interleavings are not repeated for every value.
ParseFlagsWith(h, hs, n, v) ==
    /\ pcMain = "parse"
    /\ httpOnly' = h /\ httpsOnly' = hs
    /\ pings' = n /\ verbose' = v
    /\ pcMain' = "flags"
    /\ UNCHANGED <<seqVars, count, output, wait, exit, link, links, capacity, closed, next,
                   mirrors, channel, outVars, pingVars>>

ParseFlags ==
    \E h, hs, v \in BOOLEAN : \E n \in PingsValues : ParseFlagsWith(h, hs, n, v)

\* A choice of the link without the check: the later flag wins.
CheckFlagsLastWins ==
    /\ pcMain = "flags"
    /\ link' = IF httpsOnly THEN httpsLink ELSE IF httpOnly THEN httpLink ELSE allLink
    /\ pcMain' = "get"
    /\ UNCHANGED <<seqVars, flags, wait, exit, links, capacity, closed, next, mirrors, channel,
                   outVars, pingVars>>

\* The check of the scheme flags and the choice of the link.
CheckFlags ==
    /\ pcMain = "flags"
    /\ IF httpOnly /\ httpsOnly
       THEN /\ erro' = Append(erro, [text |-> "can not use both -http-only and -https-only flags",
                                  args |-> <<>>])
            /\ Return("flags")
            /\ UNCHANGED link
       ELSE /\ link' = ChooseLink(httpOnly, httpsOnly)
            /\ pcMain' = "get"
            /\ UNCHANGED <<erro, exit>>
    /\ UNCHANGED <<seqVars, flags, wait, links, capacity, closed, next, mirrors, channel,
                   written, stdout, file, file0, info, pingVars>>

\* A failed client.Get(link) that is reported and taken for an empty list.
GetFailsGoesOn ==
    /\ pcMain = "get"
    /\ erro' = Append(erro, [text |-> "could not get response from %s", args |-> <<link>>])
    /\ links' = <<>> /\ capacity' = 0
    /\ channel' = <<>> /\ closed' = FALSE
    /\ pcMain' = "add"
    /\ UNCHANGED <<seqVars, flags, wait, exit, link, next, mirrors, written, stdout, file,
                   file0, info, pingVars>>

\* client.Get(link) fails.
GetFails ==
    /\ pcMain = "get"
    /\ erro' = Append(erro, [text |-> "could not get response from %s", args |-> <<link>>])
    /\ Return("get")
    /\ UNCHANGED <<seqVars, flags, wait, link, links, capacity, closed, next, mirrors,
                   channel, written, stdout, file, file0, info, pingVars>>

\* A main that sends the probers to a channel made once for the process,
\* and makes no channel of its own.
GetAnswersKeepsChannel(body) ==
    /\ pcMain = "get"
    /\ links' = ParseLinks(body)
    /\ capacity' = MakeCapacity(Len(ParseLinks(body)))
    /\ UNCHANGED <<channel, closed>>
    /\ pcMain' = "add"
    /\ UNCHANGED <<seqVars, flags, wait, exit, link, next, mirrors, outVars, pingVars>>

\* client.Get(link) answers: the links are parsed and the channel is made.
GetAnswersWith(body) ==
    /\ pcMain = "get"
    /\ links' = ParseLinks(body)
    /\ capacity' = MakeCapacity(Len(ParseLinks(body)))
    /\ channel' = <<>> /\ closed' = FALSE
    /\ pcMain' = "add"
    /\ UNCHANGED <<seqVars, flags, wait, exit, link, next, mirrors, outVars, pingVars>>

GetAnswers == \E body \in Bodies : GetAnswersWith(body)

\* wait.Add(length)
WaitAdd ==
    /\ pcMain = "add"
    /\ wait' = wait + AddDelta(Len(links))
    /\ next' = 1
    /\ pcMain' = "launch"
    /\ UNCHANGED <<seqVars, flags, exit, link, links, capacity, closed, mirrors, channel,
                   outVars, pingVars>>

\* One round of the launch loop: go ping(v, client, channel)
Launch ==
    /\ pcMain = "launch"
    /\ next <= Len(links)
    /\ pc' = [pc EXCEPT ![next] = "loop"]
    /\ next' = next + 1
    /\ UNCHANGED <<seqVars, flags, wait, pcMain, exit, link, links, capacity, closed,
                   mirrors, channel, outVars, i, end, requests, measured, result,
                   failedAt, warn>>

\* The launch loop ends and wait.Wait() returns.
Wait ==
    /\ pcMain = "launch"
    /\ next > Len(links)
    /\ WaitReturns(wait)
    /\ pcMain' = "close"
    /\ UNCHANGED <<seqVars, flags, wait, exit, link, links, capacity, closed, next, mirrors,
                   channel, outVars, pingVars>>

\* close(channel)
Close ==
    /\ pcMain = "close"
    /\ closed' = TRUE
    /\ pcMain' = "check"
    /\ UNCHANGED <<seqVars, flags, wait, exit, link, links, capacity, next, mirrors,
                   channel, outVars, pingVars>>

\* The check that the channel holds at least count mirrors.
CheckCountWith(c) ==
    /\ pcMain = "check"
    /\ count' = c
    /\ IF Insufficient(Len(channel), count')
       THEN /\ erro' = Append(erro, [text |-> "could not get %d mirror(s)", args |-> <<count'>>])
            /\ Return("insufficient")
       ELSE /\ pcMain' = "range"
            /\ UNCHANGED <<erro, exit>>
    /\ mirrors' = <<>>
    /\ UNCHANGED <<seqVars, httpOnly, httpsOnly, pings, output, verbose, wait, link, links,
                   capacity, closed, next, channel, written, stdout, file, file0, info,
                   pingVars>>

CheckCount == \E c \in CountValues : CheckCountWith(c)

\* "for v := range channel" receives every mirror of the closed channel, in
\* the order they were sent, and slices.SortFunc sorts them.
Sort ==
    /\ pcMain = "range"
    /\ closed
    /\ mirrors' \in SortFunc(mirrors \o channel)
    /\ channel' = <<>>
    /\ pcMain' = "output"
    /\ UNCHANGED <<seqVars, flags, wait, exit, link, links, capacity, closed, next, outVars,
                   pingVars>>

\* -output names a file and os.OpenFile fails.
OpenFails ==
    /\ pcMain = "output"
    /\ output' \in OutputValues \ {""}
    /\ erro' = Append(erro, [text |-> "could not create %s", args |-> <<output'>>])
    /\ Return("open")
    /\ UNCHANGED <<seqVars, httpOnly, httpsOnly, count, pings, verbose, wait, link, links,
                   capacity, closed, next, mirrors, channel, written, stdout, file, file0,
                   info, pingVars>>

\* The writer is chosen: os.Stdout, or the file os.OpenFile opens.  The file
\* is outside the program until then: os.OpenFile finds it absent, and creates
\* it, or finds what an earlier run left, and keeps it.
GetOutput ==
    /\ pcMain = "output"
    /\ output' \in OutputValues
    /\ IF output' # ""
       THEN /\ file0' \in OldFiles
            /\ file' = OpenFile(file0')
       ELSE UNCHANGED <<file, file0>>
    /\ pcMain' = "print"
    /\ UNCHANGED <<seqVars, httpOnly, httpsOnly, count, pings, verbose, wait, exit, link,
                   links, capacity, closed, next, mirrors, channel, written, stdout,
                   erro, info, pingVars>>

\* mirrors[:*count] with count out of range panics.
SlicePanics ==
    /\ pcMain = "print"
    /\ ~(0 <= count /\ count <= Len(mirrors))
    /\ pcMain' = "panicked" /\ exit' = "panic"
    /\ UNCHANGED <<seqVars, flags, wait, link, links, capacity, closed, next, mirrors,
                   channel, outVars, pingVars>>

\* The print loop, the footer and the information messages.
WriteMirrors ==
    /\ pcMain = "print"
    /\ 0 <= count /\ count <= Len(mirrors)
    /\ LET lines == Lines(SubSeq(mirrors, 1, count)) \o Footer
       IN  /\ written' = lines
           /\ IF output # ""
              THEN /\ file' = WriteAtStart(file, lines)
                   /\ UNCHANGED stdout
              ELSE /\ stdout' = stdout \o lines
                   /\ UNCHANGED file
    /\ info' = info \o <<"mirror list is generated", "executed in">>
    /\ Return("generated")
    /\ UNCHANGED <<seqVars, flags, wait, link, links, capacity, closed, next, mirrors,
                   channel, file0, erro, pingVars>>

----------------------------------------------------------------------------
\* ping(l, c, m), the goroutine of links[p].

\* A return of ping that leaves the WaitGroup as it is.
DoneKeepsCount(p, how) ==
    /\ wait' = wait
    /\ pc' = [pc EXCEPT ![p] = "returned"]
    /\ result' = [result EXCEPT ![p] = how]
    /\ i' = [i EXCEPT ![p] = 0]
    /\ end' = [end EXCEPT ![p] = 0]

\* The deferred wait.Done() as ping returns.
Done(p, how) ==
    /\ wait' = wait - 1
    /\ pc' = [pc EXCEPT ![p] = "returned"]
    /\ result' = [result EXCEPT ![p] = how]
    /\ i' = [i EXCEPT ![p] = 0]
    /\ end' = [end EXCEPT ![p] = 0]

\* warn.Print under if *verbose
Warn(p, msg) ==
    warn' = IF verbose THEN [warn EXCEPT ![p] = Append(@, msg)] ELSE warn

\* A round whose error also ends every other prober that is still in its loop
\* (a cancellation shared by all probers).
PingErrorCancels(p) ==
    /\ pc[p] = "loop" /\ i[p] < pings
    /\ requests' = [requests EXCEPT ![p] = @ + 1]
    /\ Warn(p, "could not get response")
    /\ measured' = [q \in Probers |-> IF q = p \/ pc[q] = "loop" THEN 0 ELSE measured[q]]
    /\ failedAt' = [failedAt EXCEPT ![p] = i[p] + 1]
    /\ wait' = wait - Cardinality({q \in Probers : q = p \/ pc[q] = "loop"})
    /\ pc' = [q \in Probers |-> IF q = p \/ pc[q] = "loop" THEN "returned" ELSE pc[q]]
    /\ result' = [q \in Probers |-> IF q = p THEN "error"
                                    ELSE IF pc[q] = "loop" THEN "zero" ELSE result[q]]
    /\ i' = [q \in Probers |-> IF q = p \/ pc[q] = "loop" THEN 0 ELSE i[q]]
    /\ end' = [q \in Probers |-> IF q = p \/ pc[q] = "loop" THEN 0 ELSE end[q]]
    /\ UNCHANGED <<seqVars, flags, mainVars, channel, outVars>>

\* One round of the loop where c.Get(l) returns an error.
PingError(p) ==
    /\ pc[p] = "loop" /\ i[p] < pings
    /\ requests' = [requests EXCEPT ![p] = @ + 1]
    /\ Warn(p, "could not get response")
    /\ measured' = [measured EXCEPT ![p] = 0]
    /\ failedAt' = [failedAt EXCEPT ![p] = i[p] + 1]
    /\ Done(p, "error")
    /\ UNCHANGED <<seqVars, flags, mainVars, channel, outVars>>

\* A round that ignores the status code and goes on to the next request.
PingStatusGoesOn(p) ==
    /\ pc[p] = "loop" /\ i[p] < pings
    /\ requests' = [requests EXCEPT ![p] = @ + 1]
    /\ failedAt' = [failedAt EXCEPT ![p] = i[p] + 1]
    /\ i' = [i EXCEPT ![p] = @ + 1]
    /\ UNCHANGED <<seqVars, flags, wait, mainVars, channel, outVars, pc, end, measured,
                   result, warn>>

\* A round that returns on a status other than 200 without a warning.
PingStatusSilent(p) ==
    /\ pc[p] = "loop" /\ i[p] < pings
    /\ requests' = [requests EXCEPT ![p] = @ + 1]
    /\ measured' = [measured EXCEPT ![p] = 0]
    /\ failedAt' = [failedAt EXCEPT ![p] = i[p] + 1]
    /\ Done(p, "status")
    /\ UNCHANGED <<seqVars, flags, mainVars, channel, outVars, warn>>

\* One round of the loop where the status code is not 200.
PingStatus(p) ==
    /\ pc[p] = "loop" /\ i[p] < pings
    /\ requests' = [requests EXCEPT ![p] = @ + 1]
    /\ Warn(p, "got status code")
    /\ measured' = [measured EXCEPT ![p] = 0]
    /\ failedAt' = [failedAt EXCEPT ![p] = i[p] + 1]
    /\ Done(p, "status")
    /\ UNCHANGED <<seqVars, flags, mainVars, channel, outVars>>

\* A round that sends a mirror as soon as it has measured its request.
PingOkSends(p) ==
    /\ pc[p] = "loop" /\ i[p] < pings
    /\ \E d \in 1 .. MaxDur :
          /\ end' = [end EXCEPT ![p] = Accumulate(@, d)]
          /\ measured' = [measured EXCEPT ![p] = @ + d]
          /\ channel' = Append(channel, [id |-> p, link |-> links[p],
                                         time |-> Average(end[p] + d, pings)])
    /\ Len(channel) < capacity
    /\ requests' = [requests EXCEPT ![p] = @ + 1]
    /\ i' = [i EXCEPT ![p] = @ + 1]
    /\ UNCHANGED <<seqVars, flags, wait, mainVars, outVars, pc, result, failedAt, warn>>

\* One round of the loop where the request succeeds after d ticks.
PingOkWith(p, d) ==
    /\ pc[p] = "loop" /\ i[p] < pings
    /\ end' = [end EXCEPT ![p] = Accumulate(@, d)]
    /\ measured' = [measured EXCEPT ![p] = @ + d]
    /\ requests' = [requests EXCEPT ![p] = @ + 1]
    /\ i' = [i EXCEPT ![p] = @ + 1]
    /\ UNCHANGED <<seqVars, flags, wait, mainVars, channel, outVars, pc, result, failedAt,
                   warn>>

PingOk(p) == \E d \in 0 .. MaxDur : PingOkWith(p, d)

\* The loop has ended with nothing measured.
PingNotResponding(p) ==
    /\ pc[p] = "loop" /\ ~(i[p] < pings)
    /\ NotResponding(end[p])
    /\ Warn(p, "is not responding")
    /\ measured' = [measured EXCEPT ![p] = 0]
    /\ Done(p, "zero")
    /\ UNCHANGED <<seqVars, flags, mainVars, channel, outVars, requests, failedAt>>

\* The send of the mirror to the channel; it waits while the buffer is full.
PingSend(p) ==
    /\ pc[p] = "loop" /\ ~(i[p] < pings)
    /\ ~NotResponding(end[p])
    /\ Len(channel) < capacity
    /\ channel' = Append(channel,
                         [id |-> p, link |-> links[p], time |-> Average(end[p], pings)])
    /\ pc' = [pc EXCEPT ![p] = "sent"]
    /\ UNCHANGED <<seqVars, flags, wait, mainVars, outVars, i, end, requests, measured,
                   result, failedAt, warn>>

\* ping returns after the send.
PingReturn(p) ==
    /\ pc[p] = "sent"
    /\ Done(p, "sent")
    /\ UNCHANGED <<seqVars, flags, mainVars, channel, outVars, requests, measured, failedAt,
                   warn>>

Ping(p) ==
    \/ PingError(p)
    \/ PingStatus(p)
    \/ PingOk(p)
    \/ PingNotResponding(p)
    \/ PingSend(p)
    \/ PingReturn(p)

\* The steps of the goroutine that runs main.
Main ==
    \/ ParseFlags
    \/ CheckFlags
    \/ GetFails
    \/ GetAnswers
    \/ WaitAdd
    \/ Launch
    \/ Wait
    \/ Close
    \/ CheckCount
    \/ Sort
    \/ OpenFails
    \/ GetOutput
    \/ SlicePanics
    \/ WriteMirrors

Next ==
    \/ Main
    \/ \E p \in Probers : Ping(p)

Spec == Init /\ [][Next]_vars

\* The run under the scheduler of the Go runtime, which lets every goroutine
\* that can run take its next step, and with requests that all come back (an
\* answer, an error or the client's timeout): main and every ping go on as
\* long as they are not waiting.
FairSpec == Spec /\ WF_vars(Main) /\ \A p \in Probers : WF_vars(Ping(p))

----------------------------------------------------------------------------
\* The benchmark: main is called again and again in one process.

\* What a prober's record is as an invocation of main begins: that of a ping
\* that has returned starts anew, a ping that is still running goes on.
Anew(f, init) == [p \in Probers |-> IF pc[p] = "returned" THEN init ELSE f[p]]

\* The next round of the loop that calls main().  The WaitGroup is a variable
\* of the package and is left as the invocation before left it; the channel,
\* the links and the loop counter of that invocation stay as they were until
\* main assigns them again.  flag.Parse() sets the flags again, and what the
\* invocation before has written is behind it: the output, the messages and
\* the probers' records start anew.
MainAgain ==
    /\ pcMain = "returned"
    /\ pcMain' = "parse" /\ exit' = "none"
    /\ httpOnly' = FALSE /\ httpsOnly' = FALSE
    /\ count' = 5 /\ pings' = 5 /\ output' = "" /\ verbose' = FALSE
    /\ mirrors' = <<>>
    /\ written' = <<>> /\ stdout' = <<>> /\ erro' = <<>> /\ info' = <<>>
    /\ file0' = NoFile /\ file' = NoFile
    /\ pc' = Anew(pc, "idle")
    /\ i' = Anew(i, 0)
    /\ end' = Anew(end, 0)
    /\ requests' = Anew(requests, 0)
    /\ measured' = Anew(measured, 0)
    /\ result' = Anew(result, "none")
    /\ failedAt' = Anew(failedAt, 0)
    /\ warn' = Anew(warn, <<>>)
    /\ UNCHANGED <<seqVars, wait, link, links, capacity, closed, next, channel>>

BenchmarkNext ==
    \/ Next
    \/ MainAgain

BenchmarkSpec == Init /\ [][BenchmarkNext]_vars

----------------------------------------------------------------------------
\* The run on three mirrors X, Y and Z with fixed answers: every request to X
\* takes three ticks and every request to Y one (a tick is a tenth of a
\* second, so their times are 0.30 s and 0.10 s whatever -pings is), and Z
\* fails: one of its requests returns an error or a bad status, or all of them
\* are answered in no time.  -count is 2 or 3.

ScenarioBody ==
    <<[kind |-> "server", url |-> "X"], [kind |-> "server", url |-> "Y"],
      [kind |-> "server", url |-> "Z"]>>
ScenarioDuration == <<3, 1>>
ScenarioCounts == {2, 3}

ScenarioPing(p) ==
    \/ p \in {1, 2} /\ PingOkWith(p, ScenarioDuration[p])
    \/ p = 3 /\ PingOkWith(p, 0)
    \/ p = 3 /\ PingError(p)
    \/ p = 3 /\ PingStatus(p)
    \/ PingNotResponding(p)
    \/ PingSend(p)
    \/ PingReturn(p)

ScenarioNext ==
    \/ \E v \in BOOLEAN : \E n \in 1 .. MaxPings : ParseFlagsWith(FALSE, FALSE, n, v)
    \/ CheckFlags
    \/ GetAnswersWith(ScenarioBody)
    \/ WaitAdd
    \/ Launch
    \/ Wait
    \/ Close
    \/ \E c \in ScenarioCounts : CheckCountWith(c)
    \/ Sort
    \/ GetOutput
    \/ WriteMirrors
    \/ \E p \in 1 .. Len(ScenarioBody) : ScenarioPing(p)

ScenarioSpec == Init /\ [][ScenarioNext]_vars

----------------------------------------------------------------------------
\* The variant of main with the flags -http, -https, -count and -pings
\* (src/main.go, lines 155 to 245), from close(mirrorsChannel) on: the mirrors
\* are received, sorted and printed.  The variables are those of the generator
\* above: channel is mirrorsChannel, count is *countFlag, pings is *pingsFlag,
\* a mirror's link is its url and its time its duration.

\* The list of all mirrors, which main fetches when neither -http nor -https
\* is given.
allMirrorList == "https://www.archlinux.org/mirrorlist/all"

\* cmp.Compare(x.duration, x.duration): both arguments are x's.
CompareDurations(x, y) == Compare(x.time, x.time)

\* slices.SortFunc with that comparison: it finds every order sorted, and the
\* order it leaves is not specified.
SortFuncDurations(s) ==
    {t \in Permutations(s) :
        \A a, b \in 1 .. Len(s) : a < b => CompareDurations(t[a], t[b]) <= 0}

\* The lines the print loop of the variant writes: one per mirror.
RECURSIVE ServerLines(_)
ServerLines(ms) ==
    IF ms = <<>> THEN <<>>
    ELSE <<[line |-> "Server", link |-> Head(ms).link, time |-> Head(ms).time]>>
             \o ServerLines(Tail(ms))

\* What the closed channel can hold for the n links of the list: the mirror of
\* any of the links, at most one of each, in any order, each with a positive
\* total of p requests.
Arrivals(n, p) ==
    LET Sent == [id : 1 .. n, e : 1 .. p * MaxDur]
        Seqs == UNION {[1 .. k -> Sent] : k \in 0 .. n}
    IN  {[k \in 1 .. Len(q) |->
              [id |-> q[k].id, link |-> UrlNames[q[k].id], time |-> Average(q[k].e, p)]] :
            q \in {r \in Seqs : \A a, b \in 1 .. Len(r) : a # b => r[a].id # r[b].id}}

\* main after close(mirrorsChannel).
DurationInit ==
    /\ httpOnly = FALSE /\ httpsOnly = FALSE /\ output = "" /\ verbose = FALSE
    /\ count \in CountValues
    /\ pings \in 1 .. MaxPings
    /\ wait = 0
    /\ pcMain = "range" /\ exit = "none"
    /\ link = allMirrorList
    /\ \E n \in 0 .. MaxLinks :
          /\ links = ParseLinks(Body(n))
          /\ capacity = n
          /\ channel \in Arrivals(n, pings)
    /\ closed = TRUE
    /\ next = Len(links) + 1 /\ mirrors = <<>>
    /\ written = <<>> /\ stdout = <<>> /\ erro = <<>> /\ info = <<>>
    /\ file0 = NoFile /\ file = file0
    /\ pc = [p \in Probers |-> IF p <= Len(links) THEN "returned" ELSE "idle"]
    /\ i = [p \in Probers |-> 0]
    /\ end = [p \in Probers |-> 0]
    /\ requests = [p \in Probers |-> 0]
    /\ measured = [p \in Probers |-> 0]
    /\ result = [p \in Probers |-> "none"]
    /\ failedAt = [p \in Probers |-> 0]
    /\ warn = [p \in Probers |-> <<>>]
    /\ maxTime = 1 /\ sortedMirrors = {} /\ accepted = <<>>

\* "for mirror := range mirrorsChannel" and slices.SortFunc
SortDurations ==
    /\ pcMain = "range"
    /\ closed
    /\ mirrors' \in SortFuncDurations(mirrors \o channel)
    /\ channel' = <<>>
    /\ pcMain' = "print"
    /\ UNCHANGED <<seqVars, flags, wait, exit, link, links, capacity, closed, next, outVars,
                   pingVars>>

\* mirrors[:*countFlag] with countFlag out of range panics.
SliceDurationsPanics ==
    /\ pcMain = "print"
    /\ ~(0 <= count /\ count <= Len(mirrors))
    /\ pcMain' = "panicked" /\ exit' = "panic"
    /\ UNCHANGED <<seqVars, flags, wait, link, links, capacity, closed, next, mirrors,
                   channel, outVars, pingVars>>

\* The print loop and the two lines that follow it.
PrintDurations ==
    /\ pcMain = "print"
    /\ 0 <= count /\ count <= Len(mirrors)
    /\ written' = ServerLines(SubSeq(mirrors, 1, count))
    /\ stdout' = stdout \o ServerLines(SubSeq(mirrors, 1, count))
                        \o <<[line |-> "Executed"], [line |-> "Generated"]>>
    /\ Return("generated")
    /\ UNCHANGED <<seqVars, flags, wait, link, links, capacity, closed, next, mirrors,
                   channel, file, file0, erro, info, pingVars>>

DurationNext ==
    \/ SortDurations
    \/ SliceDurationsPanics
    \/ PrintDurations

DurationSpec == DurationInit /\ [][DurationNext]_vars

----------------------------------------------------------------------------
\* The sequential variant of main (src/main.go, lines 15 to 117): the mirrors
\* are requested one after the other and those that answer in less than
\* *maxTime are kept in the map sortedMirrors, with the measured time as the
\* key.  links is the variant's slice mirrors, next the place of its range
\* loop, count its flag -c and maxTime its flag -m; a time is a number of ticks.

\* The values of the flag -m.
MaxTimeValues == 0 .. (MaxDur + 1)

\* The scanner loop: every line that is neither empty nor a "##" comment,
\* with "#Server = " and "/$repo/os/$arch" taken out.
RECURSIVE ScanMirrors(_)
ScanMirrors(body) ==
    IF body = <<>> THEN <<>>
    ELSE IF Head(body).kind \in {"comment", "blank"} THEN ScanMirrors(Tail(body))
         ELSE <<Head(body).url>> \o ScanMirrors(Tail(body))

\* An assignment that keeps the value a key already has.
MapStoreIfAbsent(m, k, v) ==
    IF \E e \in m : e.key = k THEN m ELSE m \cup {[key |-> k, value |-> v]}

\* sortedMirrors[end] = mirror
MapStore(m, k, v) == {e \in m : e.key # k} \cup {[key |-> k, value |-> v]}

\* sortedMirrors[executionTime]
MapLookup(m, k) == (CHOOSE e \in m : e.key = k).value

\* The keys of the map after sort.Float64s: in increasing order.
RECURSIVE SortedKeys(_)
SortedKeys(keys) ==
    IF keys = {} THEN <<>>
    ELSE LET least == CHOOSE k \in keys : \A other \in keys : k <= other
         IN  <<least>> \o SortedKeys(keys \ {least})

\* The lines printed for the keys, one Server line for each.
RECURSIVE PrintSorted(_, _)
PrintSorted(times, m) ==
    IF times = <<>> THEN <<>>
    ELSE <<[line |-> "Server", link |-> MapLookup(m, Head(times))]>>
             \o PrintSorted(Tail(times), m)

SequentialInit ==
    /\ httpOnly = FALSE /\ httpsOnly = FALSE
    /\ count = 3 /\ pings = 1 /\ output = "" /\ verbose = FALSE
    /\ maxTime = 1
    /\ wait = 0
    /\ pcMain = "parse" /\ exit = "none"
    /\ link = allMirrorList /\ links = <<>>
    /\ channel = <<>> /\ capacity = 0 /\ closed = FALSE
    /\ next = 1 /\ mirrors = <<>>
    /\ sortedMirrors = {} /\ accepted = <<>>
    /\ written = <<>> /\ stdout = <<>> /\ erro = <<>> /\ info = <<>>
    /\ file0 = NoFile /\ file = file0
    /\ pc = [p \in Probers |-> "idle"]
    /\ i = [p \in Probers |-> 0]
    /\ end = [p \in Probers |-> 0]
    /\ requests = [p \in Probers |-> 0]
    /\ measured = [p \in Probers |-> 0]
    /\ result = [p \in Probers |-> "none"]
    /\ failedAt = [p \in Probers |-> 0]
    /\ warn = [p \in Probers |-> <<>>]

\* What the sequential variant never touches.
SequentialUnchanged ==
    UNCHANGED <<httpOnly, httpsOnly, pings, output, verbose, wait, link, channel,
                capacity, closed, mirrors, written, file, file0, info, pingVars>>

\* flag.Parse()
SequentialParse ==
    /\ pcMain = "parse"
    /\ count' \in CountValues
    /\ maxTime' \in MaxTimeValues
    /\ pcMain' = "get"
    /\ UNCHANGED <<exit, links, next, sortedMirrors, accepted, stdout, erro>>
    /\ SequentialUnchanged

\* http.Get(*url) fails: log.Fatal
SequentialGetFails ==
    /\ pcMain = "get"
    /\ erro' = Append(erro, [text |-> "Error:", args |-> <<link>>])
    /\ pcMain' = "exited" /\ exit' = "fatal"
    /\ UNCHANGED <<count, maxTime, links, next, sortedMirrors, accepted, stdout>>
    /\ SequentialUnchanged

\* http.Get(*url) answers: the lines are scanned and the map is made.
SequentialGetAnswers ==
    /\ pcMain = "get"
    /\ \E n \in 0 .. MaxLinks : links' = ScanMirrors(Body(n))
    /\ sortedMirrors' = {}
    /\ next' = 1
    /\ pcMain' = "loop"
    /\ UNCHANGED <<count, maxTime, exit, accepted, stdout, erro>>
    /\ SequentialUnchanged

\* One round of the range loop: the mirror is requested; the round is given
\* up on an error or on a time of maxTime or more, the loop is left when the
\* map holds count mirrors, and otherwise the mirror is stored under its time.
SequentialRound ==
    /\ pcMain = "loop"
    /\ next <= Len(links)
    /\ \E failed \in BOOLEAN : \E d \in 0 .. MaxDur :
          IF failed \/ d >= maxTime
          THEN /\ next' = next + 1
               /\ UNCHANGED <<pcMain, sortedMirrors, accepted>>
          ELSE IF Cardinality(sortedMirrors) = count
          THEN /\ pcMain' = "print"
               /\ UNCHANGED <<next, sortedMirrors, accepted>>
          ELSE /\ sortedMirrors' = MapStore(sortedMirrors, d, links[next])
               /\ accepted' = Append(accepted, [mirror |-> links[next], time |-> d])
               /\ next' = next + 1
               /\ UNCHANGED pcMain
    /\ UNCHANGED <<count, maxTime, exit, links, stdout, erro>>
    /\ SequentialUnchanged

\* The loop is over: the keys are sorted and the mirrors printed, least time
\* first, with the two footer lines.
SequentialWrite ==
    /\ \/ pcMain = "print"
       \/ pcMain = "loop" /\ next > Len(links)
    /\ LET executionTimes == SortedKeys({e.key : e \in sortedMirrors})
       IN  stdout' = stdout \o PrintSorted(executionTimes, sortedMirrors)
                            \o <<[line |-> "Generated"], [line |-> "Total"]>>
    /\ Return("generated")
    /\ UNCHANGED <<count, maxTime, links, next, sortedMirrors, accepted, erro>>
    /\ SequentialUnchanged

SequentialNext ==
    \/ SequentialParse
    \/ SequentialGetFails
    \/ SequentialGetAnswers
    \/ SequentialRound
    \/ SequentialWrite

SequentialSpec == SequentialInit /\ [][SequentialNext]_vars

----------------------------------------------------------------------------
\* Notions the properties below are stated with.

\* The probers of the run: one per link.
Launched == 1 .. Len(links)

\* The mirrors in the channel, and at any place of the run where they are kept.
InChannel(p) == {k \in 1 .. Len(channel) : channel[k].id = p}
InMirrors(p) == {k \in 1 .. Len(mirrors) : mirrors[k].id = p}
Held(p) == Cardinality(InChannel(p)) + Cardinality(InMirrors(p))
Results == {channel[k] : k \in 1 .. Len(channel)} \cup {mirrors[k] : k \in 1 .. Len(mirrors)}

\* Prober p has sent all its requests, each was answered with status 200, and
\* the total of the measured durations is positive.
Succeeded(p) == failedAt[p] = 0 /\ requests[p] = pings /\ measured[p] > 0

\* main is past wait.Wait().
PastWait ==
    \/ pcMain \in {"close", "check", "range", "output", "print", "panicked"}
    \/ exit \in {"insufficient", "open", "generated"}

----------------------------------------------------------------------------
\* C1: the channel is closed, its length is compared with count and its
\* mirrors are read only after every launched ping has returned: whenever
\* main is past wait.Wait(), or the channel is closed, no prober is still
\* running, and the mirrors main has collected for sorting are exactly those
\* of the probers that sent one.
C1_CloseCheckReadAfterAllReturned ==
    /\ (PastWait \/ closed) => \A p \in Launched : pc[p] = "returned"
    /\ pcMain \in {"output", "print"} =>
          /\ {mirrors[k].id : k \in 1 .. Len(mirrors)} = {p \in Launched : result[p] = "sent"}
          /\ Len(mirrors) = Cardinality({p \in Launched : result[p] = "sent"})

\* C1 happens: two probers were launched, the first sent a mirror, the second
\* failed in its second round, and main, past the range loop, has collected
\* exactly the first prober's mirror.
C1_Witness ==
    /\ pcMain = "output" /\ Len(links) = 2
    /\ result[1] = "sent" /\ result[2] = "error" /\ failedAt[2] = 2
    /\ Len(mirrors) = 1 /\ mirrors[1].id = 1

\* C2: one goroutine per link and none else; the channel never holds more
\* than N mirrors nor two of one prober; a prober holds a mirror only if all
\* its rounds succeeded with a positive total, and a prober that has returned
\* has contributed exactly one mirror in that case and none otherwise.
C2_OneResultPerSucceededProber ==
    /\ \A p \in Probers : p > Len(links) => pc[p] = "idle"
    /\ \A p \in Launched : pc[p] # "idle" <=> p < next
    /\ Len(channel) <= Len(links)
    /\ \A p \in Probers : Held(p) <= 1
    /\ \A p \in Probers : Held(p) = 1 => Succeeded(p)
    /\ \A p \in Launched : pc[p] = "returned" => (Held(p) = 1 <=> Succeeded(p))

\* C2 happens: both probers have returned, one with a mirror in the channel
\* and one, whose total was zero, without.
C2_Witness ==
    /\ Len(links) = 2 /\ pings = 2
    /\ pc[1] = "returned" /\ pc[2] = "returned"
    /\ result[1] = "zero" /\ result[2] = "sent"
    /\ Len(channel) = 1 /\ channel[1].id = 2

\* C3: a prober whose round failed (error or status other than 200) has
\* returned in that very round: the requests it has sent are those up to the
\* failed round, and no mirror of it is in the channel or in main's slice,
\* whatever the earlier rounds measured.
C3_FailedRoundIsTerminal ==
    \A p \in Probers :
        /\ result[p] \in {"error", "status"} <=> failedAt[p] # 0
        /\ failedAt[p] # 0 =>
              /\ pc[p] = "returned"
              /\ 1 <= failedAt[p] /\ failedAt[p] <= pings
              /\ requests[p] = failedAt[p]
              /\ Held(p) = 0

\* C3 happens: a prober got a bad status in its second round, after a first
\* round that succeeded, while the other prober's mirror is in the channel.
C3_Witness ==
    /\ pings = 2 /\ Len(links) = 2
    /\ failedAt[1] = 2 /\ result[1] = "status"
    /\ Len(channel) = 1 /\ channel[1].id = 2

\* C4: every mirror a prober has sent names the link the prober was started
\* with, and its time is the sum of the P measured durations divided by P.
C4_TimeIsMeanOfMeasured ==
    \A m \in Results :
        /\ m.link = links[m.id]
        /\ pings >= 1 /\ requests[m.id] = pings
        /\ m.time.den > 0
        /\ m.time.num * pings = measured[m.id] * m.time.den

\* C4 happens: with two pings each, a mirror of time 1/2 (durations 0 and 1,
\* or 1 and 0) is in the channel, followed by one of time 2/2.
C4_Witness ==
    /\ pings = 2 /\ Len(channel) = 2
    /\ measured[channel[1].id] = 1 /\ measured[channel[2].id] = 2

\* C5: no mirror of time zero exists anywhere, in the channel, in main's
\* slice or in what main wrote; a prober whose rounds all succeeded with a
\* zero total returned as not responding, without a mirror.
C5_NoZeroLatencyResult ==
    /\ \A m \in Results : m.time.num > 0 /\ m.time.den > 0
    /\ \A k \in 1 .. Len(written) : written[k].line = "time" => written[k].time.num > 0
    /\ \A p \in Probers :
          /\ result[p] = "zero" => Held(p) = 0
          /\ (pc[p] = "returned" /\ failedAt[p] = 0 /\ measured[p] = 0) => result[p] = "zero"
          /\ (pc[p] = "sent" \/ result[p] = "sent") => measured[p] > 0

\* C5 happens: both requests of a prober were answered in zero ticks.
C5_Witness ==
    \E p \in Launched : pings = 2 /\ requests[p] = 2 /\ result[p] = "zero"

\* The number of probers that sent a mirror, and the time of a prober's mirror.
Successes == Cardinality({p \in Launched : result[p] = "sent"})
TimeOf(p) == Average(measured[p], pings)

\* The entries main wrote: entry k is the pair of its time line and its Server
\* line.
Entries == (Len(written) - 1) \div 2
EntryTime(k) == written[2 * k - 1].time
EntryLink(k) == written[2 * k].link

\* The ways to name, for every entry written, a prober of its own.
Origins ==
    {f \in [1 .. Entries -> Launched] : \A a, b \in 1 .. Entries : a # b => f[a] # f[b]}

\* C6: with count >= 1 and at least count successes the run fails neither as
\* insufficient nor in the slice; what it writes is exactly count entries, in
\* non-decreasing order of time, each the link and time of a prober of its own
\* that succeeded, and no success left out is strictly faster than an entry
\* written.  The lines go to standard output or to the start of the file.
C6_FastestCountInOrder ==
    /\ (count >= 1 /\ Successes >= count) => exit \notin {"insufficient", "panic"}
    /\ (exit = "generated" /\ count >= 1) =>
          /\ Len(written) = 2 * count + 1
          /\ Entries = count
          /\ \A k \in 1 .. Entries :
                written[2 * k - 1].line = "time" /\ written[2 * k].line = "Server"
          /\ \A a, b \in 1 .. Entries : a < b => Compare(EntryTime(a), EntryTime(b)) <= 0
          /\ \E f \in Origins :
                /\ \A k \in 1 .. Entries :
                      /\ result[f[k]] = "sent" /\ Succeeded(f[k])
                      /\ EntryLink(k) = links[f[k]]
                      /\ Compare(EntryTime(k), TimeOf(f[k])) = 0
                /\ \A p \in Launched :
                      (result[p] = "sent" /\ \A k \in 1 .. Entries : f[k] # p) =>
                          \A k \in 1 .. Entries : Compare(EntryTime(k), TimeOf(p)) <= 0
          /\ written[Len(written)] = Footer[1]
          /\ IF output = "" THEN stdout = written
             ELSE SubSeq(file.content, 1, Len(written)) = written

\* C6 happens: with -count 2 and two successes, the first prober's of time 2/2
\* and the second's of time 1/2, the run wrote the second before the first.
C6_Witness ==
    /\ exit = "generated" /\ count = 2 /\ pings = 2
    /\ measured[1] = 2 /\ measured[2] = 1
    /\ EntryLink(1) = links[2] /\ EntryLink(2) = links[1]

\* C7 (as claimed): when fewer probers succeeded than -count asks for, the run
\* ends with the insufficient-mirrors error, the error message reports both
\* count and the number of mirrors available, and nothing is written.
C7_InsufficientReportsBothCounts ==
    /\ (PastWait /\ pcMain # "close" /\ pcMain # "check" /\ Successes < count) =>
          (pcMain = "returned" /\ exit = "insufficient")
    /\ exit = "insufficient" =>
          /\ Successes < count
          /\ erro # <<>>
          /\ \E k \in 1 .. Len(erro[Len(erro)].args) : erro[Len(erro)].args[k] = count
          /\ \E k \in 1 .. Len(erro[Len(erro)].args) : erro[Len(erro)].args[k] = Successes
          /\ written = <<>> /\ stdout = <<>> /\ file = file0

\* C9: the channel has the capacity N, never holds more, and a prober that
\* has reached its send finds room: the send is enabled, although main reads
\* nothing before every prober has returned.
C9_SendNeverBlocks ==
    /\ capacity = Len(links)
    /\ Len(channel) <= capacity
    /\ \A p \in Launched :
          (pc[p] = "loop" /\ ~(i[p] < pings) /\ ~NotResponding(end[p])) =>
              /\ Len(channel) < capacity
              /\ ENABLED PingSend(p)
    /\ pcMain \in {"add", "launch", "close", "check"} =>
          Len(channel) = Cardinality({p \in Launched : pc[p] = "sent" \/ result[p] = "sent"})

\* C9 happens: main is still at wait.Wait(), the first prober's mirror is in
\* the buffer and the second prober is at its send.
C9_Witness ==
    /\ pcMain = "launch" /\ next > Len(links) /\ capacity = 2
    /\ Len(channel) = 1 /\ channel[1].id = 1
    /\ pc[2] = "loop" /\ i[2] = pings /\ end[2] > 0

\* C8 (as claimed): on every failing exit of main nothing is written to
\* standard output or to the writer, and the output file is as it was found:
\* neither created nor modified.
C8_NoArtifactOnFailingExit ==
    exit \in {"flags", "get", "insufficient", "open", "panic"} =>
        /\ written = <<>> /\ stdout = <<>>
        /\ file = file0

\* The part of C8 that holds: the four error returns of main (scheme flags,
\* mirror list not reachable, too few mirrors, file not opened) write nothing
\* and leave the file alone.
C8_ErrorReturnsWriteNothing ==
    exit \in {"flags", "get", "insufficient", "open"} =>
        /\ written = <<>> /\ stdout = <<>>
        /\ file = file0

\* What belongs to prober p alone.
Local(p) == <<pc[p], i[p], end[p], requests[p], measured[p], result[p], failedAt[p], warn[p]>>

\* C10: a prober that has not returned can always take its next step,
\* whatever the others do; a step of one prober changes nothing of another,
\* and a step of main changes a prober only by launching it; how a prober
\* returned and the time it sent follow from its own requests alone; and once
\* all probers have returned wait.Wait() lets main go on.
C10_ProbersIndependent ==
    /\ [](\A p \in Launched : pc[p] \in {"loop", "sent"} => ENABLED Ping(p))
    /\ [](\A p \in Launched : pc[p] = "returned" =>
              /\ result[p] \in {"error", "status"} <=> failedAt[p] # 0
              /\ result[p] = "sent" <=> Succeeded(p)
              /\ result[p] = "sent" =>
                    \E m \in Results : m.id = p /\ m.time = TimeOf(p))
    /\ []((pcMain = "launch" /\ next > Len(links)
             /\ \A p \in Launched : pc[p] = "returned") => ENABLED Wait)
    /\ [][\A p, q \in Probers : (p # q /\ Ping(q)) => Local(p)' = Local(p)]_vars
    /\ [][\A p \in Probers : (pcMain' # pcMain \/ next' # next) =>
              \/ Local(p)' = Local(p)
              \/ pc[p] = "idle" /\ pc'[p] = "loop" /\ p = next]_vars

\* C10 happens: the first prober has failed and returned, and the second,
\* with both its requests answered, has sent its mirror all the same.
C10_Witness ==
    /\ pings = 2 /\ Len(links) = 2
    /\ pc[1] = "returned" /\ result[1] = "error"
    /\ pc[2] = "sent" /\ requests[2] = 2
    /\ Len(channel) = 1 /\ channel[1].id = 2

----------------------------------------------------------------------------
\* C11 (as claimed): the order of what is written is fixed by the times alone:
\* of two mirrors with equal times the one of the earlier link (the order in
\* which the links were found) is written first, however the probers'
\* mirrors arrived in the channel.
C11_TiesInDiscoveryOrder ==
    exit = "generated" =>
        \A a, b \in 1 .. count :
            (a < b /\ Compare(mirrors[a].time, mirrors[b].time) = 0) =>
                mirrors[a].id < mirrors[b].id

\* C13 (as claimed): after a run that wrote its list to the file -output
\* names, the file holds the written lines and nothing else, whatever it held
\* before.
C13_FileHoldsNewLinesOnly ==
    (exit = "generated" /\ output # "") => file.content = written

\* The part of C13 that holds: the written lines are at the start of the file,
\* and a file that was absent or not longer than them holds nothing else.
C13_NewLinesAtStart ==
    (exit = "generated" /\ output # "") =>
        /\ file.exists
        /\ SubSeq(file.content, 1, Len(written)) = written
        /\ Len(file0.content) <= Len(written) => file.content = written

\* C14: with both scheme flags set main prints the error and returns with no
\* link chosen, no list fetched, no prober started, no request sent and
\* nothing written; otherwise the run does not end with that error and the
\* link is the list of the scheme the flag names, or of all mirrors without
\* a flag.
C14_SchemeFlagsValidatedFirst ==
    /\ (pcMain \notin {"parse", "flags"} /\ httpOnly /\ httpsOnly) =>
          /\ pcMain = "returned" /\ exit = "flags"
          /\ erro = <<[text |-> "can not use both -http-only and -https-only flags",
                       args |-> <<>>]>>
          /\ link = "" /\ links = <<>> /\ capacity = 0
          /\ wait = 0 /\ next = 1 /\ channel = <<>>
          /\ \A p \in Probers : pc[p] = "idle" /\ requests[p] = 0
          /\ written = <<>> /\ stdout = <<>> /\ file = file0 /\ info = <<>>
    /\ (pcMain \notin {"parse", "flags"} /\ ~(httpOnly /\ httpsOnly)) =>
          /\ exit # "flags"
          /\ httpOnly => link = httpLink
          /\ httpsOnly => link = httpsLink
          /\ (~httpOnly /\ ~httpsOnly) => link = allLink
    /\ exit = "flags" => (httpOnly /\ httpsOnly)

\* C14 happens: main has returned on both flags set.
C14_Witness ==
    /\ httpOnly /\ httpsOnly
    /\ pcMain = "returned" /\ exit = "flags" /\ Len(erro) = 1

\* C15: once the fetch of the mirror list has failed main has returned with
\* that error: no link was parsed, the WaitGroup was not touched, no prober
\* was started, no request was sent to a mirror and nothing was written.
C15_SourceUnavailableShortCircuits ==
    /\ (\E k \in 1 .. Len(erro) : erro[k].text = "could not get response from %s") =>
          (pcMain = "returned" /\ exit = "get")
    /\ exit = "get" =>
          /\ erro = <<[text |-> "could not get response from %s", args |-> <<link>>]>>
          /\ link = ChooseLink(httpOnly, httpsOnly)
          /\ links = <<>> /\ wait = 0 /\ next = 1 /\ channel = <<>> /\ ~closed
          /\ \A p \in Probers :
                pc[p] = "idle" /\ requests[p] = 0 /\ result[p] = "none" /\ warn[p] = <<>>
          /\ written = <<>> /\ stdout = <<>> /\ file = file0 /\ info = <<>>

\* C15 happens: the list of the https mirrors could not be fetched.
C15_Witness ==
    /\ exit = "get" /\ httpsOnly /\ link = httpsLink
    /\ erro # <<>> /\ erro[1].args = <<httpsLink>>

\* C16: without -verbose no prober prints a warning; with it a prober prints
\* at most one, as it returns: the one of its failure when it failed on an
\* error, on a status other than 200 or on a zero total, and none when it
\* sent its mirror.  The step that prints a warning leaves main and every
\* other prober as they were.
C16_WarningsOnlyWhenVerbose ==
    /\ [](\A p \in Probers :
              /\ ~verbose => warn[p] = <<>>
              /\ Len(warn[p]) <= 1
              /\ pc[p] # "returned" => warn[p] = <<>>
              /\ result[p] \in {"none", "sent"} => warn[p] = <<>>
              /\ (verbose /\ result[p] = "error") => warn[p] = <<"could not get response">>
              /\ (verbose /\ result[p] = "status") => warn[p] = <<"got status code">>
              /\ (verbose /\ result[p] = "zero") => warn[p] = <<"is not responding">>)
    /\ [][\A p \in Probers : warn'[p] # warn[p] =>
              /\ pcMain' = pcMain /\ exit' = exit
              /\ \A q \in Probers \ {p} : Local(q)' = Local(q)]_vars

\* C16 happens: with -verbose, one prober warned of a bad status and the
\* other, which sent its mirror, printed nothing; main has gone on.
C16_Witness ==
    /\ verbose /\ Len(links) = 2 /\ pcMain = "close"
    /\ result[1] = "status" /\ warn[1] = <<"got status code">>
    /\ result[2] = "sent" /\ warn[2] = <<>>

\* C17 (as claimed): the links main parsed hold no URL twice, so no two
\* probers send their requests to one URL.
C17_NoUrlProbedTwice ==
    /\ \A a, b \in 1 .. Len(links) : a # b => links[a] # links[b]
    /\ \A p, q \in Launched :
          (p # q /\ requests[p] > 0 /\ requests[q] > 0) => links[p] # links[q]

\* C18: under the fair scheduler every prober that was started returns, and
\* main, once it has added the probers to the WaitGroup, gets past
\* wait.Wait(), whatever the requests answered; every return of a prober, on
\* any of its paths, takes exactly one off the counter, and a prober that has
\* returned stays so.
C18_EveryProberReturns ==
    /\ \A p \in Probers : [](pc[p] = "loop" => <>(pc[p] = "returned"))
    /\ [](pcMain = "launch" => <>(pcMain = "close"))
    /\ [][\A p \in Probers :
              /\ (pc[p] # "returned" /\ pc'[p] = "returned") => wait' = wait - 1
              /\ pc[p] = "returned" => pc'[p] = "returned"]_vars

\* C18 happens: main is past wait.Wait() after one prober returned on a bad
\* status in its second round and the other on a zero total.
C18_Witness ==
    /\ pcMain = "close" /\ wait = 0 /\ pings = 2 /\ Len(links) = 2
    /\ result[1] = "status" /\ failedAt[1] = 2
    /\ result[2] = "zero"

\* C12 (as claimed): on X (0.30 s), Y (0.10 s) and Z (fails), a run with
\* -count 2 writes Y and then X, and a run with -count 3 ends with the
\* insufficient-mirrors error, which reports 3 requested and 2 available, and
\* writes nothing.
C12_ScenarioYThenX ==
    /\ (count = 2 /\ pcMain \in {"print", "returned"}) =>
          /\ exit \in {"none", "generated"}
          /\ exit = "generated" =>
                /\ Entries = 2
                /\ EntryLink(1) = "Y" /\ EntryLink(2) = "X"
                /\ Compare(EntryTime(1), [num |-> 1, den |-> 1]) = 0
                /\ Compare(EntryTime(2), [num |-> 3, den |-> 1]) = 0
    /\ count = 3 =>
          /\ pcMain = "returned" /\ exit = "insufficient"
          /\ Successes = 2
          /\ erro # <<>>
          /\ \E k \in 1 .. Len(erro[Len(erro)].args) : erro[Len(erro)].args[k] = 3
          /\ \E k \in 1 .. Len(erro[Len(erro)].args) : erro[Len(erro)].args[k] = 2
          /\ written = <<>> /\ stdout = <<>> /\ file = file0

\* The part of C12 that holds: Y is written before X with -count 2, and with
\* -count 3 the run ends with the insufficient-mirrors error, which names the
\* 3 requested, and writes nothing.
C12_ScenarioButAvailable ==
    /\ (count = 2 /\ pcMain \in {"print", "returned"}) =>
          /\ exit \in {"none", "generated"}
          /\ exit = "generated" =>
                /\ Entries = 2
                /\ EntryLink(1) = "Y" /\ EntryLink(2) = "X"
                /\ Compare(EntryTime(1), [num |-> 1, den |-> 1]) = 0
                /\ Compare(EntryTime(2), [num |-> 3, den |-> 1]) = 0
    /\ count = 3 =>
          /\ pcMain = "returned" /\ exit = "insufficient"
          /\ Successes = 2
          /\ erro = <<[text |-> "could not get %d mirror(s)", args |-> <<3>>]>>
          /\ written = <<>> /\ stdout = <<>> /\ file = file0

\* C19 (as claimed): in the variant with the flags -http and -https the
\* Server lines are printed in non-decreasing order of duration, and no mirror
\* that was collected and not printed has a smaller duration than a printed
\* one.
C19_PrintedInOrderOfDuration ==
    exit = "generated" =>
        /\ \A a, b \in 1 .. Len(written) :
              a < b => Compare(written[a].time, written[b].time) <= 0
        /\ \A a \in 1 .. count : \A b \in (count + 1) .. Len(mirrors) :
              Compare(mirrors[a].time, mirrors[b].time) <= 0

\* The part of C19 that holds: count Server lines are printed, one for each
\* of the first count mirrors of the slice, which holds every mirror that was
\* in the channel once.
C19_PrintedAreCountCollected ==
    exit = "generated" =>
        /\ Len(written) = count
        /\ \A k \in 1 .. count :
              written[k].link = mirrors[k].link /\ written[k].time = mirrors[k].time
        /\ \A a, b \in 1 .. Len(mirrors) : a # b => mirrors[a].id # mirrors[b].id
        /\ channel = <<>>

\* The Server lines of standard output, and the last place in accepted of the
\* mirrors stored under time t.
ServersPrinted == {k \in 1 .. Len(stdout) : stdout[k].line = "Server"}
LastAccepted(t) ==
    CHOOSE k \in 1 .. Len(accepted) :
        /\ accepted[k].time = t
        /\ \A j \in 1 .. Len(accepted) : accepted[j].time = t => j <= k

\* C20: in the sequential variant the map holds one mirror for every time
\* under which a mirror was stored: the one stored last.  The Server lines
\* printed are those of the map, least time first; a mirror that was accepted
\* before another of the same time is in no line, and the last one accepted
\* with that time is.
C20_EqualTimesKeepTheLater ==
    /\ {e.key : e \in sortedMirrors} = {accepted[k].time : k \in 1 .. Len(accepted)}
    /\ \A e, f \in sortedMirrors : e.key = f.key => e = f
    /\ \A e \in sortedMirrors : e.value = accepted[LastAccepted(e.key)].mirror
    /\ exit = "generated" =>
          /\ Cardinality(ServersPrinted) = Cardinality(sortedMirrors)
          /\ ServersPrinted = 1 .. Cardinality(sortedMirrors)
          /\ \A k \in ServersPrinted : \E e \in sortedMirrors :
                /\ stdout[k].link = e.value
                /\ Cardinality({f \in sortedMirrors : f.key < e.key}) = k - 1
          /\ \A j, k \in 1 .. Len(accepted) :
                (j < k /\ accepted[j].time = accepted[k].time) =>
                    /\ accepted[j].mirror # accepted[k].mirror
                    /\ \A n \in ServersPrinted : stdout[n].link # accepted[j].mirror
                    /\ k = LastAccepted(accepted[k].time) =>
                          \E n \in ServersPrinted : stdout[n].link = accepted[k].mirror

\* C20 happens: two mirrors were accepted with the same time, and the one
\* Server line printed is the second's.
C20_Witness ==
    /\ exit = "generated" /\ Len(accepted) = 2
    /\ accepted[1].time = accepted[2].time
    /\ ServersPrinted = {1} /\ stdout[1].link = accepted[2].mirror

----------------------------------------------------------------------------
\* main has not reached wait.Add yet, or has returned before it.
BeforeAdd == pcMain \in {"parse", "flags", "get", "add"} \/ exit \in {"flags", "get"}

\* The probers that are counted: launched or still to be launched, and not
\* returned.
Counted == {p \in Launched : pc[p] # "returned"}

\* C21: the WaitGroup counts the probers.  Before wait.Add the counter is
\* zero and no ping has started; from wait.Add on the counter is the number
\* of probers, launched or still to be launched, that have not returned.  The
\* probers that have started are those the launch loop has passed.  The
\* counter is never negative, and main is past wait.Wait() only with the
\* counter at zero and all the probers launched.
C21_BarrierCountsProbers ==
    /\ wait >= 0
    /\ BeforeAdd => wait = 0 /\ \A p \in Probers : pc[p] = "idle"
    /\ ~BeforeAdd => wait = Cardinality(Counted)
    /\ \A p \in Probers : pc[p] # "idle" <=> (p \in Launched /\ p < next)
    /\ PastWait => wait = 0 /\ next > Len(links) /\ Counted = {}

\* C21 happens: of two probers the first was launched and has returned, the
\* second is still to be launched, and the counter is one.
C21_Witness ==
    /\ pcMain = "launch" /\ Len(links) = 2 /\ next = 2
    /\ pc[1] = "returned" /\ pc[2] = "idle"
    /\ wait = 1

----------------------------------------------------------------------------
\* C22: main can be called again and again.  Whenever main has returned,
\* the WaitGroup counter is zero and no ping is running; so an invocation
\* begins with the counter at zero and every ping idle.  Each invocation makes
\* its own channel: as main comes to wait.Add the channel is open and empty
\* with room for every link, and from then on the counter is the number of
\* this invocation's probers that have not returned, and every mirror in the
\* channel is the one mirror of a prober of this invocation that has sent it.
C22_RunsDoNotCarryOver ==
    /\ pcMain = "returned" =>
          wait = 0 /\ \A p \in Probers : pc[p] \in {"idle", "returned"}
    /\ pcMain \in {"parse", "flags", "get"} =>
          wait = 0 /\ \A p \in Probers : pc[p] = "idle" /\ result[p] = "none"
    /\ pcMain = "add" =>
          /\ channel = <<>> /\ ~closed /\ capacity = Len(links)
          /\ wait = 0 /\ \A p \in Probers : pc[p] = "idle"
    /\ ~BeforeAdd =>
          /\ wait = Cardinality(Counted)
          /\ \A k \in 1 .. Len(channel) :
                /\ channel[k].id \in Launched
                /\ channel[k].link = links[channel[k].id]
                /\ pc[channel[k].id] \in {"sent", "returned"}
                /\ pc[channel[k].id] = "returned" => result[channel[k].id] = "sent"
                /\ InChannel(channel[k].id) = {k}

\* C22 happens: main was called again after an invocation that ended for want
\* of mirrors; the closed channel of that invocation, with the one mirror it
\* got, is still there as main is about to get the mirror list, the counter
\* is zero and no ping is running.
C22_Witness ==
    /\ pcMain = "get" /\ exit = "none"
    /\ closed /\ Len(channel) = 1 /\ Len(links) = 2
    /\ wait = 0 /\ \A p \in Probers : pc[p] = "idle"

----------------------------------------------------------------------------
\* main is past the check of the number of mirrors, so -count has been read.
PastCheck ==
    \/ pcMain \in {"range", "output", "print", "panicked"}
    \/ exit \in {"insufficient", "open", "generated"}

\* C23: with -pings zero or negative no prober sends a request or measures
\* anything: its total stays zero, it returns as not responding and sends no
\* mirror, so the channel stays empty and no mirror is collected.  No mirror
\* anywhere has a time divided by a number of pings below one.  A run with
\* such -pings and -count of one or more ends with the error of too few
\* mirrors.
C23_NoPingsNoMirror ==
    /\ \A m \in Results : m.time.den >= 1
    /\ (pcMain # "parse" /\ pings <= 0) =>
          /\ \A p \in Probers :
                /\ requests[p] = 0 /\ i[p] = 0 /\ end[p] = 0 /\ measured[p] = 0
                /\ failedAt[p] = 0
                /\ pc[p] \in {"idle", "loop", "returned"}
                /\ pc[p] = "returned" => result[p] = "zero"
                /\ pc[p] # "returned" => result[p] = "none"
          /\ channel = <<>> /\ mirrors = <<>>
          /\ (PastCheck /\ count >= 1) =>
                /\ exit = "insufficient"
                /\ Len(erro) = 1 /\ erro[1].text = "could not get %d mirror(s)"
                /\ written = <<>>

\* C23 happens: with -pings 0 two probers have returned without a request,
\* and main, with -count 1, has ended with the error of too few mirrors.
C23_Witness ==
    /\ pings = 0 /\ Len(links) = 2
    /\ result[1] = "zero" /\ result[2] = "zero"
    /\ requests[1] = 0 /\ requests[2] = 0
    /\ count = 1 /\ exit = "insufficient"

----------------------------------------------------------------------------
\* C24: whenever main comes to mirrors[:*count], count is within the bounds
\* of the mirrors collected: 0 <= count <= len(mirrors).  The run with
\* -count -1 refutes it: len(channel) < -1 is false, main goes on, and the
\* slice expression is reached with count below zero.
C24_SliceWithinBounds ==
    pcMain = "print" => (0 <= count /\ count <= Len(mirrors))

\* What holds of the slice expression: count is never above the number of
\* mirrors collected, and the slice panics with a negative count only.
C24_SliceBelowLength ==
    /\ pcMain = "print" => count <= Len(mirrors)
    /\ exit = "panic" => count < 0

============================================================================
